---- MODULE Spec2Model ----
(***************************************************************************)
(* The tool-use orchestration loop of micro-x-agent-loop: Agent            *)
(* (constructor and run), the provider gateway chat, and the serial        *)
(* prompt loop that drives Agent.run.                                      *)
(*                                                                         *)
(* The repository holds two texts of the Agent class: src/src/agent.ts     *)
(* and src/unnamed/part_006.  They differ in the test that ends the loop   *)
(* and in the handling of a rejecting executor.  The variable agentSrc     *)
(* says which text the running Agent was compiled from; it is chosen in    *)
(* Init and never changes.                                                 *)
(***************************************************************************)
EXTENDS Integers, Sequences, FiniteSets, TLC

VARIABLES
  agentSrc,     \* which text of the Agent class is running
  tools,        \* config.tools, the list handed to the constructor
  toolMap,      \* this.toolMap
  anthropicTools, \* this.anthropicTools
  messages,     \* this.messages, the Conversation State
  pc,           \* position of the one Agent.run (or none) in its code
  blocks,       \* the list the dispatch for-loop iterates
  idx,          \* position of the for-loop in blocks
  toolResults,  \* the local toolResults of the current round
  executing,    \* the executor calls in flight, each a [block, tool]
  response,     \* the local response of the loop: the latest resolved chat
  nextId,       \* next call identifier the provider will hand out
  runs,         \* history: number of Agent.run invocations so far
  failures,     \* history: number of rejected chat invocations so far
  calls,        \* history: number of chat invocations so far
  creates,      \* history: number of client.messages.create requests so far
  request,      \* history: the messages argument of the latest chat invocation
  createParams, \* history: the other parameters of the latest create request
  execLog,      \* history: executor invocations, in order
  rejectLog,    \* history: executor rejections, in order
  resolveLog,   \* history: the texts executors resolved with, in order
  outcome,      \* how the latest Agent.run ended, if it has
  shell,        \* the prompt loop: "question", "running" or "closed"
  settled,      \* history: number of chat invocations resolved or rejected
  ended,        \* history: number of Agent.run invocations returned or failed
  trimmed,      \* the local trimmed of the prompt callback: the latest line, trimmed
  output,       \* history: what the prompt callback printed, in order
  session,      \* 1: the run is evaluated and recorded; 2: it is evaluated again
  script,       \* what the line, the provider and the executors gave the latest run
  pos,          \* next entry of script the second evaluation takes
  snapshot,     \* the Conversation State and the stubs before the latest run
  recorded,     \* what the first evaluation ended with
  toolRun,      \* one execute call of a built-in tool, taken on its own
  gmailClient,  \* the module variable gmailClient of the Gmail authorization
  getClient     \* the call of getGmailClient the Gmail tool in toolRun made

vars == <<agentSrc, tools, toolMap, anthropicTools, messages, pc, blocks, idx,
          toolResults, executing, response, nextId, runs, failures, calls,
          creates, request, createParams, execLog, rejectLog, resolveLog,
          outcome, shell, settled, ended, trimmed, output, session, script,
          pos, snapshot, recorded, toolRun, gmailClient, getClient>>

\* The Agent, its prompt loop and their histories.
agentVars == <<agentSrc, tools, toolMap, anthropicTools, messages, pc, blocks,
               idx, toolResults, executing, response, nextId, runs, failures,
               calls, creates, request, createParams, execLog, rejectLog,
               resolveLog, outcome, shell, settled, ended, trimmed, output,
               session, script, pos, snapshot, recorded>>

\* The built-in tools and their helpers, taken on their own.
gmailVars == <<gmailClient, getClient>>
toolVars == <<toolRun, gmailClient, getClient>>

replayVars == <<session, script, pos, snapshot, recorded>>

----------------------------------------------------------------------------
(* Bounds and input sets *)

\* The provider answers (or fails) the first MaxCalls chat invocations only.
MaxCalls == 2

\* A multipart payload has at most MaxParts parts.
MaxParts == 2

AgentTs == "src/src/agent.ts"
Part006 == "src/unnamed/part_006"
AgentSources == {AgentTs, Part006}

\* A Tool: its name and (as a number) the identity of its execute function.
\* inputSchema is any record; the spread in toAnthropicTools lets its own
\* `type` key, when it has one, replace "object".
BashA == [name |-> "bash", description |-> "Execute a bash command",
          inputSchema |-> [type |-> "object", required |-> "command"],
          execute |-> 1]
ReadFile == [name |-> "read_file", description |-> "Read a file",
             inputSchema |-> [required |-> "path"],
             execute |-> 2]
BashB == [name |-> "bash", description |-> "Another bash",
          inputSchema |-> [type |-> "string"],
          execute |-> 3]
ToolLists == {<<>>, <<BashA>>, <<BashA, ReadFile>>, <<BashA, BashB>>}

UserMessages == {"hi"}

\* The lines the operator types, character by character.
WhiteSpace == {" ", "\t", "\n"}
Lines ==
  {<<"h", "i">>, <<" ", "h", "i", " ">>,
   <<>>, <<" ", "\t">>,
   <<"e", "x", "i", "t">>, <<" ", "q", "u", "i", "t", " ">>}
StopReasons == {"end_turn", "tool_use", "max_tokens"}
\* Texts an executor resolves with: a result, or its own report of a failure.
ExecTexts == {"ok", "Error reading file: ENOENT"}
ToolErrors == {"boom"}
ProviderErrors == {"overloaded"}

Txt(t) == [type |-> "text", text |-> t]
Use(n) == [type |-> "tool_use", id |-> 0, name |-> n, input |-> "in"]

\* The contents a provider response may carry (call identifiers are filled in
\* when the response arrives).
ContentShapes ==
  { <<>>,
    <<Txt("a")>>,
    <<Txt("a"), Txt("b")>>,
    <<Use("bash")>>,
    <<Txt("a"), Use("bash")>>,
    <<Use("bash"), Use("read_file")>>,
    <<Use("Bash")>>,
    <<Use("Bash"), Txt("b"), Use("bash")>> }

----------------------------------------------------------------------------
(* Pure helpers *)

RECURSIVE Filter(_, _)
Filter(s, type) ==
  IF s = <<>> THEN <<>>
  ELSE IF Head(s).type = type THEN <<Head(s)>> \o Filter(Tail(s), type)
       ELSE Filter(Tail(s), type)

\* response.content.filter(block => block.type === "tool_use")
ToolUseBlocks(content) == Filter(content, "tool_use")

RECURSIVE Join(_, _)
Join(texts, sep) ==
  IF texts = <<>> THEN ""
  ELSE IF Len(texts) = 1 THEN texts[1]
       ELSE texts[1] \o sep \o Join(Tail(texts), sep)

\* response.content.filter(text).map(block => block.text).join("\n")
JoinText(content) ==
  LET textBlocks == Filter(content, "text")
  IN Join([i \in 1..Len(textBlocks) |-> textBlocks[i].text], "\n")

\* new Map(config.tools.map(t => [t.name, t])): a later entry replaces an
\* earlier one with the same key; nothing is thrown.
ToolMapOf(ts) ==
  [n \in {ts[i].name : i \in DOMAIN ts} |->
     LET last == CHOOSE i \in DOMAIN ts :
                   /\ ts[i].name = n
                   /\ \A j \in DOMAIN ts : ts[j].name = n => j <= i
     IN ts[last]]

\* this.toolMap.get(name) finds a tool (otherwise it yields undefined)
HasTool(map, name) == name \in DOMAIN map

\* A variant of Spread with a defect: base wins, as in { ...over, ...base }.
SpreadBaseWins(base, over) ==
  [k \in DOMAIN base \cup DOMAIN over |->
     IF k \in DOMAIN base THEN base[k] ELSE over[k]]

\* String.prototype.trim: white space is removed at both ends.
RECURSIVE TrimStart(_)
TrimStart(cs) ==
  IF cs = <<>> THEN cs
  ELSE IF Head(cs) \in WhiteSpace THEN TrimStart(Tail(cs)) ELSE cs

RECURSIVE TrimEnd(_)
TrimEnd(cs) ==
  IF cs = <<>> THEN cs
  ELSE IF cs[Len(cs)] \in WhiteSpace THEN TrimEnd(SubSeq(cs, 1, Len(cs) - 1))
       ELSE cs

\* The characters as one string.
RECURSIVE Str(_)
Str(cs) == IF cs = <<>> THEN "" ELSE Head(cs) \o Str(Tail(cs))

\* A variant of Trim with a defect: only the start of the line is trimmed.
TrimStartOnly(line) == Str(TrimStart(line))

Trim(line) == Str(TrimEnd(TrimStart(line)))

\* { ...base, ...over }: the keys of both, over wins.
Spread(base, over) ==
  [k \in DOMAIN base \cup DOMAIN over |->
     IF k \in DOMAIN over THEN over[k] ELSE base[k]]

\* toAnthropicTools(tools): one descriptor per tool, in order.
ToAnthropicTools(ts) ==
  [i \in DOMAIN ts |->
     [name |-> ts[i].name,
      description |-> ts[i].description,
      input_schema |-> Spread([type |-> "object"], ts[i].inputSchema)]]

\* The configuration the prompt loop constructs its Agent with.
Model == "claude-sonnet-4-5-20250929"
MaxTokens == 4096
SystemPrompt == "SYSTEM_PROMPT"

NoParams == [model |-> "", max_tokens |-> 0, system |-> "", tools |-> <<>>]

\* The provider's call identifiers: fresh, in block order.
RECURSIVE WithIds(_, _)
WithIds(shape, next) ==
  IF shape = <<>> THEN <<>>
  ELSE IF Head(shape).type = "tool_use"
       THEN <<[Head(shape) EXCEPT !.id = next]>> \o WithIds(Tail(shape), next + 1)
       ELSE <<Head(shape)>> \o WithIds(Tail(shape), next)

\* Turns of this.messages.  content is a string for a user text Turn and a
\* list of blocks otherwise; kind tags which of text / blocks is in use.
UserTurn(u) == [role |-> "user", kind |-> "text", text |-> u, blocks |-> <<>>]
\* A variant of AssistantTurn with a defect: only the text blocks are kept.
AssistantTurnTextOnly(content) ==
  [role |-> "assistant", kind |-> "blocks", text |-> "",
   blocks |-> Filter(content, "text")]

AssistantTurn(content) ==
  [role |-> "assistant", kind |-> "blocks", text |-> "", blocks |-> content]
ToolResultTurn(results) ==
  [role |-> "user", kind |-> "blocks", text |-> "", blocks |-> results]

UnknownToolResult(block) ==
  [type |-> "tool_result", tool_use_id |-> block.id,
   content |-> "Error: unknown tool \"" \o block.name \o "\"",
   is_error |-> TRUE]

\* A variant of SuccessResult with a defect: the identifier echoed is the one
\* of the first tool-call segment of the response.
SuccessResultFirstId(block, result) ==
  [type |-> "tool_result",
   tool_use_id |-> Filter(messages[Len(messages)].blocks, "tool_use")[1].id,
   content |-> result]

\* A variant of SuccessResult with a defect: a text that reports a failure
\* of the tool is tagged as an error.
SuccessResultTagsErrors(block, result) ==
  IF result = "ok"
  THEN [type |-> "tool_result", tool_use_id |-> block.id, content |-> result]
  ELSE [type |-> "tool_result", tool_use_id |-> block.id, content |-> result,
        is_error |-> TRUE]

SuccessResult(block, result) ==
  [type |-> "tool_result", tool_use_id |-> block.id, content |-> result]

ExecErrorResult(block, message) ==
  [type |-> "tool_result", tool_use_id |-> block.id,
   content |-> "Error executing tool \"" \o block.name \o "\": " \o message,
   is_error |-> TRUE]

\* is_error as the provider reads it: an absent field is false.
IsError(entry) == "is_error" \in DOMAIN entry /\ entry.is_error

\* The test that ends the loop after a response.
StopsLoopAgentTs(content, stop) == stop # "tool_use"
StopsLoopPart006(content, stop) == Len(ToolUseBlocks(content)) = 0
StopsLoop(content, stop) ==
  IF agentSrc = AgentTs THEN StopsLoopAgentTs(content, stop)
  ELSE StopsLoopPart006(content, stop)

\* The list the dispatch loop iterates.
LoopBlocksAgentTs(content) == content
LoopBlocksPart006(content) == ToolUseBlocks(content)
LoopBlocks(content) ==
  IF agentSrc = AgentTs THEN LoopBlocksAgentTs(content)
  ELSE LoopBlocksPart006(content)

\* response, with the chat invocation and the run it belongs to.
NoResponse == [content |-> <<>>, stop_reason |-> "", call |-> 0, run |-> 0]

\* The built-in tools whose execute is an async function with one try/catch.
CatchingTools ==
  {"read_file", "write_file", "linkedin_jobs", "linkedin_job_detail",
   "gmail_search", "gmail_read", "gmail_send"}
BuiltinNames == {"bash"} \cup CatchingTools

\* The tools that begin their try block with await getGmailClient().
GmailTools == {"gmail_search", "gmail_read", "gmail_send"}

\* Clients are numbered in the order google.gmail made them; 0 is null.
NoClient == 0
MaxClients == 2

\* No call of getGmailClient yet: phase is where the call is, returned the
\* client it gave, first the client of the first call that completed, created
\* the number of clients made, via how the latest call got its client, and
\* rejected whether a call has failed.
NoGetClient ==
  [phase |-> "idle", returned |-> NoClient, first |-> NoClient, created |-> 0,
   via |-> "", rejected |-> FALSE]

\* The text each catch block puts before the message of what it caught.
ErrorPrefix ==
  [read_file |-> "Error reading file: ",
   write_file |-> "Error writing file: ",
   linkedin_jobs |-> "Error searching LinkedIn jobs: ",
   linkedin_job_detail |-> "Error fetching job details: ",
   gmail_search |-> "Error searching Gmail: ",
   gmail_read |-> "Error reading email: ",
   gmail_send |-> "Error sending email: "]

\* A text each tool returns when what it awaits has succeeded.
SuccessText ==
  [read_file |-> "contents",
   write_file |-> "Successfully wrote to f.txt",
   linkedin_jobs |-> "No job postings found matching your criteria.",
   linkedin_job_detail |-> "Title: Engineer",
   gmail_search |-> "No emails found matching your query.",
   gmail_send |-> "Email sent successfully (ID: 1)"]

\* The messages of the errors the awaited operations reject with.
OpErrors == {"ENOENT", "Network error"}
HttpStatuses == {404, 429}

\* What execFile hands its callback: error (null or with a code that is a
\* number, a string or missing), stdout and stderr.
ErrorCodes ==
  {[kind |-> "number", n |-> 2], [kind |-> "string", s |-> "ENOENT"],
   [kind |-> "null"]}
StdOuts == {<<>>, <<"o", "\n">>}
StdErrs == {<<>>, <<"e", " ">>}
NoCallback == [failed |-> FALSE, code |-> [kind |-> "null"],
               stdout |-> <<>>, stderr |-> <<>>]
ExecFileCallbacks ==
  {[failed |-> FALSE, code |-> [kind |-> "null"], stdout |-> o, stderr |-> e] :
     o \in StdOuts, e \in StdErrs}
  \cup {[failed |-> TRUE, code |-> c, stdout |-> o, stderr |-> e] :
          c \in ErrorCodes, o \in StdOuts, e \in StdErrs}

\* A number in a template literal: its decimal digits.
Digits == <<"0", "1", "2", "3", "4", "5", "6", "7", "8", "9">>
RECURSIVE DecStr(_)
DecStr(n) ==
  IF n < 10 THEN Digits[n + 1] ELSE DecStr(n \div 10) \o Digits[(n % 10) + 1]

\* Message payloads of the mail API: a MIME type, body.data (base64url, ""
\* when absent) and parts.
Mime(type, subtype) == [type |-> type, subtype |-> subtype]
Leaf(mimeType, data) == [mimeType |-> mimeType, data |-> data, parts |-> <<>>]
Multi(subtype, parts) ==
  [mimeType |-> Mime("multipart", subtype), data |-> "", parts |-> parts]

PlainP == Leaf(Mime("text", "plain"), "cA")
PlainNoData == Leaf(Mime("text", "plain"), "")
HtmlH == Leaf(Mime("text", "html"), "PHA-aDwvcD4")
HtmlEmpty == Leaf(Mime("text", "html"), "PHN0eWxlPjwvc3R5bGU-")
Png == Leaf(Mime("image", "png"), "iVBORw")
Leaves == {PlainP, PlainNoData, HtmlH, HtmlEmpty, Png}

MultiTypes == {"alternative", "mixed", "related"}
SeqsUpTo(S, n) == UNION {[1..k -> S] : k \in 0..n}
Nested ==
  {Multi("related", <<HtmlH>>), Multi("related", <<HtmlEmpty>>),
   Multi("mixed", <<PlainP, HtmlH>>), Multi("related", <<>>),
   Multi("alternative", <<PlainP, HtmlH>>)}
Payloads ==
  Leaves
    \cup {Multi(t, ps) : t \in MultiTypes, ps \in SeqsUpTo(Leaves, MaxParts)}
    \cup {Multi(t, ps) : t \in MultiTypes,
                         ps \in SeqsUpTo(Leaves \cup Nested, MaxParts)}
NoPayload == Leaf(Mime("", ""), "")

\* decodeBody: base64url to UTF-8, for the bodies used here.
DecodeBody(data) ==
  CASE data = "cA" -> "p"
    [] data = "PHA-aDwvcD4" -> "<p>h</p>"
    [] data = "PHN0eWxlPjwvc3R5bGU-" -> "<style></style>"
    [] OTHER -> "?"

\* htmlToText, for the documents used here: style is removed, a paragraph
\* gets line breaks around it, and the result is trimmed.
HtmlToText(html) ==
  CASE html = "<p>h</p>" -> "h"
    [] html = "<style></style>" -> ""
    [] OTHER -> html

NoToolRun == [tool |-> "", phase |-> "idle", settles |-> 0, failed |-> FALSE,
              message |-> "", cb |-> NoCallback, payload |-> NoPayload,
              body |-> "", text |-> ""]
NoSnapshot == [messages |-> <<>>, nextId |-> 1, calls |-> 0, creates |-> 0,
               settled |-> 0]
NoOutcome == [kind |-> "none", value |-> ""]
Answer(text) == [kind |-> "answer", value |-> text]
Failure(message) == [kind |-> "error", value |-> message]

----------------------------------------------------------------------------
(* Init: the state after `new Agent(config)` *)

Init ==
  /\ agentSrc \in AgentSources
  /\ tools \in ToolLists
  /\ toolMap = ToolMapOf(tools)
  /\ anthropicTools = ToAnthropicTools(tools)
  /\ messages = <<>>
  /\ pc = "AWAITING_USER_INPUT"
  /\ blocks = <<>>
  /\ idx = 1
  /\ toolResults = <<>>
  /\ executing = <<>>
  /\ response = NoResponse
  /\ nextId = 1
  /\ runs = 0
  /\ failures = 0
  /\ calls = 0
  /\ creates = 0
  /\ request = <<>>
  /\ createParams = NoParams
  /\ execLog = <<>>
  /\ rejectLog = <<>>
  /\ resolveLog = <<>>
  /\ outcome = NoOutcome
  /\ shell = "question"
  /\ settled = 0
  /\ ended = 0
  /\ trimmed = ""
  /\ output = <<>>
  /\ session = 1
  /\ script = <<>>
  /\ pos = 1
  /\ snapshot = NoSnapshot
  /\ recorded = [outcome |-> NoOutcome, messages |-> <<>>]
  /\ toolRun = NoToolRun
  /\ gmailClient = NoClient
  /\ getClient = NoGetClient

----------------------------------------------------------------------------
(* Actions *)

\* The line, the provider and the executors are stubs: the first evaluation
\* of a run takes any value from them and writes it down, the second
\* evaluation is given the values written down, in order.
Stub(ev) ==
  /\ IF session = 1
     THEN script' = Append(script, ev) /\ pos' = pos
     ELSE /\ pos <= Len(script)
          /\ script[pos] = ev
          /\ script' = script
          /\ pos' = pos + 1
  /\ UNCHANGED <<session, snapshot, recorded>>

StubStart(ev) ==
  /\ IF session = 1
     THEN /\ script' = <<ev>>
          /\ pos' = pos
          /\ snapshot' = [messages |-> messages, nextId |-> nextId,
                          calls |-> calls, creates |-> creates,
                          settled |-> settled]
     ELSE /\ pos = 1
          /\ script[pos] = ev
          /\ script' = script
          /\ pos' = pos + 1
          /\ snapshot' = snapshot
  /\ UNCHANGED <<session, recorded>>

\* A variant of RunEnds with a defect: a failed run ends the session.
RunEndsExitsOnError ==
  /\ ended' = ended + 1
  /\ shell' = IF outcome'.kind = "error" THEN "closed" ELSE "question"
  /\ output' = Append(output,
                      IF outcome'.kind = "answer"
                      THEN [stream |-> "stdout",
                            text |-> "\nassistant> " \o outcome'.value \o "\n"]
                      ELSE [stream |-> "stderr",
                            text |-> "\nError: " \o outcome'.value \o "\n"])

\* Agent.run returns or rejects: the awaiting callback of the prompt loop
\* prints the answer or the error and calls prompt() again.
RunEnds ==
  /\ ended' = ended + 1
  /\ shell' = "question"
  /\ output' = Append(output,
                      IF outcome'.kind = "answer"
                      THEN [stream |-> "stdout",
                            text |-> "\nassistant> " \o outcome'.value \o "\n"]
                      ELSE [stream |-> "stderr",
                            text |-> "\nError: " \o outcome'.value \o "\n"])

\* The callback of rl.question awaits agent.run before it calls prompt()
\* again; until then no question is pending and typed lines reach nobody.
\* ShellAfterLineNoAwait is a variant with a defect: prompt() is called at once.
ShellAfterLineNoAwait == shell' = "question"

ShellAfterLine == shell' = "running"

\* A variant of Chat with a defect: only the latest Turn is sent.
ChatLastTurnOnly(msgs) ==
  /\ calls' = calls + 1
  /\ creates' = creates + 1
  /\ request' = <<msgs[Len(msgs)]>>
  /\ createParams' = [model |-> Model, max_tokens |-> MaxTokens,
                      system |-> SystemPrompt, tools |-> anthropicTools]

\* chat(...): one client.messages.create request with the given messages,
\* the system prompt and the tool descriptors.
Chat(msgs) ==
  /\ calls' = calls + 1
  /\ creates' = creates + 1
  /\ request' = msgs
  /\ createParams' = [model |-> Model, max_tokens |-> MaxTokens,
                      system |-> SystemPrompt, tools |-> anthropicTools]

\* The prompt loop calls agent.run(trimmed) when no run is under way; run
\* appends the user Turn and awaits the first chat.
Run ==
  /\ shell = "question"
  /\ calls < MaxCalls
  /\ ShellAfterLine
  /\ \E line \in Lines :
       /\ Trim(line) \notin {"exit", "quit", ""}
       /\ trimmed' = Trim(line)
       /\ messages' = Append(messages, UserTurn(trimmed'))
       /\ Chat(messages')
       /\ StubStart([kind |-> "line", text |-> trimmed'])
  /\ pc' = "CALLING_PROVIDER"
  /\ runs' = runs + 1
  /\ outcome' = NoOutcome
  /\ blocks' = <<>> /\ idx' = 1 /\ toolResults' = <<>>
  /\ UNCHANGED <<agentSrc, tools, toolMap, anthropicTools, executing, response, nextId,
                 failures, execLog, rejectLog, resolveLog, settled, ended, output>>
  /\ UNCHANGED toolVars

\* The awaited chat rejects: nothing catches it, run rejects with the error.
\* Variants of OnChatRejected with a defect, used to test the properties.
OnChatRejectedPops(e) ==
  /\ pc' = "FAILED"
  /\ outcome' = Failure(e)
  /\ messages' = SubSeq(messages, 1, Len(messages) - 1)
  /\ RunEnds
  /\ UNCHANGED <<calls, creates, request, createParams>>

OnChatRejectedAppends(e) ==
  /\ pc' = "FAILED"
  /\ outcome' = Failure(e)
  /\ messages' = Append(messages, AssistantTurn(<<>>))
  /\ RunEnds
  /\ UNCHANGED <<calls, creates, request, createParams>>

OnChatRejectedRetries(e) ==
  /\ pc' = pc
  /\ outcome' = outcome
  /\ messages' = messages
  /\ Chat(messages)
  /\ UNCHANGED <<shell, ended, output>>

OnChatRejected(e) ==
  /\ pc' = "FAILED"
  /\ outcome' = Failure(e)
  /\ RunEnds
  /\ UNCHANGED <<messages, calls, creates, request, createParams>>

ChatRejects ==
  /\ pc = "CALLING_PROVIDER"
  /\ calls <= MaxCalls
  /\ failures' = failures + 1
  /\ settled' = settled + 1
  /\ \E e \in ProviderErrors :
       /\ OnChatRejected(e)
       /\ Stub([kind |-> "reject", error |-> e])
  /\ UNCHANGED <<trimmed, agentSrc, tools, toolMap, anthropicTools, blocks, idx, toolResults, executing,
                 response, nextId, runs, execLog, rejectLog, resolveLog>>
  /\ UNCHANGED toolVars

\* The awaited chat resolves: the assistant Turn is appended, then run either
\* returns the joined text or enters the dispatch loop.
ChatResolves ==
  /\ pc = "CALLING_PROVIDER"
  /\ calls <= MaxCalls
  /\ \E shape \in ContentShapes, stop \in StopReasons :
       LET content == WithIds(shape, nextId) IN
       /\ Stub([kind |-> "resolve", shape |-> shape, stop |-> stop])
       /\ messages' = Append(messages, AssistantTurn(content))
       /\ nextId' = nextId + Len(ToolUseBlocks(content))
       /\ response' = [content |-> content, stop_reason |-> stop,
                       call |-> calls, run |-> runs]
       /\ IF StopsLoop(content, stop)
          THEN /\ pc' = "DONE"
               /\ outcome' = Answer(JoinText(content))
               /\ blocks' = <<>>
               /\ RunEnds
          ELSE /\ pc' = "DISPATCHING_TOOLS"
               /\ outcome' = outcome
               /\ blocks' = LoopBlocks(content)
               /\ UNCHANGED <<shell, ended, output>>
  /\ settled' = settled + 1
  /\ idx' = 1
  /\ toolResults' = <<>>
  /\ UNCHANGED <<trimmed, agentSrc, tools, toolMap, anthropicTools, executing, runs, failures, calls,
                 creates, request, createParams, execLog, rejectLog, resolveLog>>
  /\ UNCHANGED toolVars

\* src/src/agent.ts only: `if (block.type !== "tool_use") continue;`
SkipBlock ==
  /\ pc = "DISPATCHING_TOOLS"
  /\ agentSrc = AgentTs
  /\ idx <= Len(blocks)
  /\ blocks[idx].type # "tool_use"
  /\ idx' = idx + 1
  /\ UNCHANGED <<trimmed, agentSrc, tools, toolMap, anthropicTools, messages, pc, blocks, toolResults,
                 executing, response, nextId, runs, failures, calls, creates,
                 request, createParams, execLog, rejectLog, resolveLog, outcome,
                 shell, settled, ended, output>>
  /\ UNCHANGED replayVars
  /\ UNCHANGED toolVars

\* A variant of DispatchUnknown with a defect: the miss is thrown, run rejects.
DispatchUnknownThrows ==
  /\ pc = "DISPATCHING_TOOLS"
  /\ idx <= Len(blocks)
  /\ blocks[idx].type = "tool_use"
  /\ ~HasTool(toolMap, blocks[idx].name)
  /\ pc' = "FAILED"
  /\ outcome' = Failure("unknown tool")
  /\ RunEnds
  /\ UNCHANGED <<trimmed, agentSrc, tools, toolMap, anthropicTools, messages, blocks,
                 idx, toolResults, executing, response, nextId, runs, failures,
                 calls, creates, request, createParams, execLog, rejectLog,
                 resolveLog, settled>>
  /\ UNCHANGED replayVars
  /\ UNCHANGED toolVars

\* The requested name is not a key of toolMap.
DispatchUnknown ==
  /\ pc = "DISPATCHING_TOOLS"
  /\ idx <= Len(blocks)
  /\ blocks[idx].type = "tool_use"
  /\ ~HasTool(toolMap, blocks[idx].name)
  /\ toolResults' = Append(toolResults, UnknownToolResult(blocks[idx]))
  /\ idx' = idx + 1
  /\ UNCHANGED <<trimmed, agentSrc, tools, toolMap, anthropicTools, messages, pc, blocks, executing,
                 response, nextId, runs, failures, calls, creates, request, createParams,
                 execLog, rejectLog, resolveLog, outcome,
                 shell, settled, ended, output>>
  /\ UNCHANGED replayVars
  /\ UNCHANGED toolVars

\* A variant of InvokeExecutor with a defect: the call is not awaited, the
\* for-loop goes on to the next block at once.
InvokeExecutorNoAwait ==
  /\ pc = "DISPATCHING_TOOLS"
  /\ idx <= Len(blocks)
  /\ blocks[idx].type = "tool_use"
  /\ HasTool(toolMap, blocks[idx].name)
  /\ LET tool == toolMap[blocks[idx].name] IN
       /\ executing' = Append(executing, [block |-> blocks[idx], tool |-> tool])
       /\ execLog' = Append(execLog, [tool_use_id |-> blocks[idx].id,
                                      name |-> tool.name,
                                      execute |-> tool.execute,
                                      input |-> blocks[idx].input])
  /\ pc' = pc
  /\ idx' = idx + 1
  /\ UNCHANGED <<trimmed, agentSrc, tools, toolMap, anthropicTools, messages, blocks, toolResults,
                 response, nextId, runs, failures, calls, creates, request, createParams,
                 rejectLog, resolveLog, outcome,
                 shell, settled, ended, output>>
  /\ UNCHANGED replayVars
  /\ UNCHANGED toolVars

\* tool.execute(block.input) is called and awaited.
InvokeExecutor ==
  /\ pc = "DISPATCHING_TOOLS"
  /\ idx <= Len(blocks)
  /\ blocks[idx].type = "tool_use"
  /\ HasTool(toolMap, blocks[idx].name)
  /\ LET tool == toolMap[blocks[idx].name] IN
       /\ executing' = Append(executing, [block |-> blocks[idx], tool |-> tool])
       /\ execLog' = Append(execLog, [tool_use_id |-> blocks[idx].id,
                                      name |-> tool.name,
                                      execute |-> tool.execute,
                                      input |-> blocks[idx].input])
  /\ pc' = "EXECUTING_TOOL"
  /\ UNCHANGED <<trimmed, agentSrc, tools, toolMap, anthropicTools, messages, blocks, idx, toolResults,
                 response, nextId, runs, failures, calls, creates, request, createParams,
                 rejectLog, resolveLog, outcome,
                 shell, settled, ended, output>>
  /\ UNCHANGED replayVars
  /\ UNCHANGED toolVars

\* The executor's promise resolves with a text.
ExecutorResolves ==
  /\ pc = "EXECUTING_TOOL"
  /\ \E result \in ExecTexts :
       /\ toolResults' = Append(toolResults, SuccessResult(executing[1].block, result))
       /\ resolveLog' = Append(resolveLog, [tool_use_id |-> executing[1].block.id,
                                            text |-> result])
       /\ Stub([kind |-> "result", result |-> result])
  /\ executing' = <<>>
  /\ idx' = idx + 1
  /\ pc' = "DISPATCHING_TOOLS"
  /\ UNCHANGED <<trimmed, agentSrc, tools, toolMap, anthropicTools, messages, blocks, response, nextId,
                 runs, failures, calls, creates, request, createParams, execLog, rejectLog,
                 outcome,
                 shell, settled, ended, output>>
  /\ UNCHANGED toolVars

\* The executor throws or its promise rejects.  src/unnamed/part_006 catches
\* it into an error entry; src/src/agent.ts has no try/catch, so run rejects.
ExecutorRejectsAgentTs(message) ==
  /\ pc' = "FAILED"
  /\ outcome' = Failure(message)
  /\ RunEnds
  /\ UNCHANGED <<toolResults, idx>>

ExecutorRejectsPart006(message) ==
  /\ toolResults' = Append(toolResults, ExecErrorResult(executing[1].block, message))
  /\ idx' = idx + 1
  /\ pc' = "DISPATCHING_TOOLS"
  /\ outcome' = outcome
  /\ UNCHANGED <<shell, ended, output>>

ExecutorRejects ==
  /\ pc = "EXECUTING_TOOL"
  /\ \E message \in ToolErrors :
       /\ rejectLog' = Append(rejectLog, [tool_use_id |-> executing[1].block.id,
                                          name |-> executing[1].block.name,
                                          message |-> message])
       /\ Stub([kind |-> "throw", message |-> message])
       /\ IF agentSrc = AgentTs THEN ExecutorRejectsAgentTs(message)
          ELSE ExecutorRejectsPart006(message)
  /\ executing' = <<>>
  /\ UNCHANGED <<trimmed, agentSrc, tools, toolMap, anthropicTools, messages, blocks, response, nextId,
                 runs, failures, calls, creates, request, createParams, execLog, resolveLog, settled>>
  /\ UNCHANGED toolVars

\* A variant of FinishRound with a defect: the entries are appended in the
\* order the executors happened to finish in, which is any order.
FinishRoundAnyOrder ==
  /\ pc = "DISPATCHING_TOOLS"
  /\ idx > Len(blocks)
  /\ \E f \in [DOMAIN toolResults -> DOMAIN toolResults] :
       /\ \A i, j \in DOMAIN toolResults : i # j => f[i] # f[j]
       /\ messages' = Append(messages,
                             ToolResultTurn([i \in DOMAIN toolResults |->
                                               toolResults[f[i]]]))
  /\ Chat(messages')
  /\ pc' = "CALLING_PROVIDER"
  /\ UNCHANGED <<trimmed, agentSrc, tools, toolMap, anthropicTools, blocks, idx,
                 toolResults, executing, response, nextId, runs, failures,
                 execLog, rejectLog, resolveLog, outcome, shell, settled, ended, output>>
  /\ UNCHANGED replayVars
  /\ UNCHANGED toolVars

\* The for-loop is over: the tool-result Turn is appended and the loop goes
\* round to the next chat.
FinishRound ==
  /\ pc = "DISPATCHING_TOOLS"
  /\ idx > Len(blocks)
  /\ messages' = Append(messages, ToolResultTurn(toolResults))
  /\ Chat(messages')
  /\ pc' = "CALLING_PROVIDER"
  /\ UNCHANGED <<trimmed, agentSrc, tools, toolMap, anthropicTools, blocks, idx, toolResults, executing,
                 response, nextId, runs, failures, execLog, rejectLog, resolveLog, outcome,
                 shell, settled, ended, output>>
  /\ UNCHANGED replayVars
  /\ UNCHANGED toolVars

\* The line read is `exit` or `quit`: rl.close(), no further prompt.
PromptExit ==
  /\ shell = "question"
  /\ \E line \in Lines :
       /\ Trim(line) \in {"exit", "quit"}
       /\ trimmed' = Trim(line)
  /\ shell' = "closed"
  /\ UNCHANGED <<agentSrc, tools, toolMap, anthropicTools, messages, pc, blocks, idx,
                 toolResults, executing, response, nextId, runs, failures,
                 calls, creates, request, createParams, execLog, rejectLog, resolveLog, outcome, settled,
                 ended, output>>
  /\ UNCHANGED replayVars
  /\ UNCHANGED toolVars

\* The line read is empty after trimming: prompt() again, nothing else.
PromptEmpty ==
  /\ shell = "question"
  /\ \E line \in Lines :
       /\ Trim(line) = ""
       /\ trimmed' = Trim(line)
  /\ shell' = "question"
  /\ UNCHANGED <<agentSrc, tools, toolMap, anthropicTools, messages, pc, blocks, idx,
                 toolResults, executing, response, nextId, runs, failures,
                 calls, creates, request, createParams, execLog, rejectLog, resolveLog, outcome, settled,
                 ended, output>>
  /\ UNCHANGED replayVars
  /\ UNCHANGED toolVars

Next ==
  \/ Run
  \/ PromptExit
  \/ PromptEmpty
  \/ ChatRejects
  \/ ChatResolves
  \/ SkipBlock
  \/ DispatchUnknown
  \/ InvokeExecutor
  \/ ExecutorResolves
  \/ ExecutorRejects
  \/ FinishRound

Spec == Init /\ [][Next]_vars

\* Nothing is cancelled and nothing is left waiting: a provider call and an
\* executor call settle, and the loop takes its own next step.
Fairness ==
  /\ WF_vars(ChatResolves \/ ChatRejects)
  /\ WF_vars(ExecutorResolves \/ ExecutorRejects)
  /\ WF_vars(SkipBlock \/ DispatchUnknown \/ InvokeExecutor \/ FinishRound)

SpecLive == Init /\ [][Next]_vars /\ Fairness
SpecLivePart006 == Init /\ agentSrc = Part006 /\ [][Next]_vars /\ Fairness

\* The run that has just ended is evaluated a second time: this.messages is
\* put back to what it was before the run, the stubs are rewound, and the
\* locals of the ended run are left as they are.
Replay ==
  /\ session = 1
  /\ shell = "question"
  /\ pc \in {"DONE", "FAILED"}
  /\ session' = 2
  /\ pos' = 1
  /\ recorded' = [outcome |-> outcome, messages |-> messages]
  /\ messages' = snapshot.messages
  /\ nextId' = snapshot.nextId
  /\ calls' = snapshot.calls
  /\ creates' = snapshot.creates
  /\ settled' = snapshot.settled
  /\ UNCHANGED <<trimmed, agentSrc, tools, toolMap, anthropicTools, pc, blocks, idx,
                 toolResults, executing, response, runs, failures, request,
                 createParams, execLog, rejectLog, resolveLog, outcome, shell,
                 ended, output, script, snapshot>>
  /\ UNCHANGED toolVars

NextReplay ==
  \/ Next
  \/ Replay

SpecReplay == Init /\ [][NextReplay]_vars

----------------------------------------------------------------------------
(* The built-in tools, each execute call taken on its own *)

\* The Gmail tool of toolRun, if it is one, has its client.
ClientReady == toolRun.tool \in GmailTools => getClient.phase = "returned"

\* execute(input) of a built-in tool is called; its promise is pending.

\* The greatest member of a non-empty set of numbers.
Max(S) == CHOOSE x \in S : \A y \in S : y <= x
Min(S) == CHOOSE x \in S : \A y \in S : x <= y

\* sections.join("\n\n") over the non-empty texts, in order.
JoinSections(texts) ==
  Join(SelectSeq(texts, LAMBDA t : t # ""), "\n\n")

HasHtmlData(part) == part.mimeType = Mime("text", "html") /\ part.data # ""
HasPlainData(part) == part.mimeType = Mime("text", "plain") /\ part.data # ""

\* A variant of PickAlternative with a defect: text/plain is tried first.
PickAlternativePlainFirst(parts, texts) ==
  LET html == {i \in DOMAIN parts : HasHtmlData(parts[i])}
      plain == {i \in DOMAIN parts : HasPlainData(parts[i])}
  IN  IF plain # {} THEN DecodeBody(parts[Min(plain)].data)
      ELSE IF html # {} THEN HtmlToText(DecodeBody(parts[Max(html)].data))
      ELSE JoinSections(texts)

\* The multipart/alternative branch of extractText; texts[i] is
\* extractText(parts[i]).
PickAlternative(parts, texts) ==
  LET html == {i \in DOMAIN parts : HasHtmlData(parts[i])}
      multi == {i \in DOMAIN parts :
                  parts[i].mimeType.type = "multipart" /\ texts[i] # ""}
      plain == {i \in DOMAIN parts : HasPlainData(parts[i])}
  IN  IF html # {} THEN HtmlToText(DecodeBody(parts[Max(html)].data))
      ELSE IF multi # {} THEN texts[Max(multi)]
      ELSE IF plain # {} THEN DecodeBody(parts[Min(plain)].data)
      ELSE JoinSections(texts)

RECURSIVE ExtractText(_)
ExtractText(payload) ==
  IF payload.data # "" /\ payload.mimeType = Mime("text", "plain")
  THEN DecodeBody(payload.data)
  ELSE IF payload.data # "" /\ payload.mimeType = Mime("text", "html")
  THEN HtmlToText(DecodeBody(payload.data))
  ELSE IF payload.parts = <<>> THEN ""
  ELSE LET texts == [i \in DOMAIN payload.parts |-> ExtractText(payload.parts[i])]
       IN  IF payload.mimeType = Mime("multipart", "alternative")
           THEN PickAlternative(payload.parts, texts)
           ELSE JoinSections(texts)

\* gmail_read: the message was fetched; its payload goes through extractText.
GmailReadResolves ==
  /\ toolRun.phase = "pending"
  /\ ClientReady
  /\ toolRun.tool = "gmail_read"
  /\ \E payload \in Payloads :
       LET body == ExtractText(payload) IN
       toolRun' = [toolRun EXCEPT !.phase = "resolved",
                                  !.settles = @ + 1,
                                  !.payload = payload,
                                  !.body = body,
                                  !.text = "From: a\n\n" \o
                                             (IF body = "" THEN "(no text content)"
                                              ELSE body)]
  /\ UNCHANGED gmailVars
  /\ UNCHANGED agentVars

\* What the tool awaits inside its try block succeeds.
OperationResolves ==
  /\ toolRun.phase = "pending"
  /\ ClientReady
  /\ toolRun.tool \in CatchingTools \ {"gmail_read"}
  /\ toolRun' = [toolRun EXCEPT !.phase = "resolved",
                                !.settles = @ + 1,
                                !.text = SuccessText[toolRun.tool]]
  /\ UNCHANGED gmailVars
  /\ UNCHANGED agentVars

\* A variant of OnOperationRejected with a defect: the error is thrown on.
OnOperationRejectedRethrows(m) ==
  toolRun' = [toolRun EXCEPT !.phase = "rejected",
                             !.settles = @ + 1,
                             !.failed = TRUE,
                             !.message = m]

\* catch (err): the tool returns its prefix and the message.
OnOperationRejected(m) ==
  toolRun' = [toolRun EXCEPT !.phase = "resolved",
                             !.settles = @ + 1,
                             !.failed = TRUE,
                             !.message = m,
                             !.text = ErrorPrefix[toolRun.tool] \o m]

ToolExecute ==
  /\ toolRun.phase # "pending"
  /\ \E t \in BuiltinNames :
       /\ toolRun' = [NoToolRun EXCEPT !.tool = t, !.phase = "pending"]
       /\ getClient' = [getClient EXCEPT
                          !.phase = IF t \in GmailTools THEN "called" ELSE "idle",
                          !.returned = NoClient,
                          !.via = ""]
  /\ UNCHANGED gmailClient
  /\ UNCHANGED agentVars

\* A variant of CachedClient with a defect: the cache is never looked at.
CachedClientNone == NoClient

\* if (gmailClient) return gmailClient: what the test reads.
CachedClient == gmailClient

\* getGmailClient: the cached client is returned at once.
GetGmailClientCached ==
  /\ getClient.phase = "called"
  /\ CachedClient # NoClient
  /\ getClient' = [getClient EXCEPT
                     !.phase = "returned",
                     !.returned = CachedClient,
                     !.via = "cache",
                     !.first = IF @ = NoClient THEN CachedClient ELSE @]
  /\ UNCHANGED <<toolRun, gmailClient>>
  /\ UNCHANGED agentVars

\* gmailClient = google.gmail(...); return gmailClient.
ClientCreated ==
  /\ getClient.created < MaxClients
  /\ gmailClient' = getClient.created + 1
  /\ getClient' = [getClient EXCEPT
                     !.phase = "returned",
                     !.created = @ + 1,
                     !.returned = getClient.created + 1,
                     !.via = "created",
                     !.first = IF @ = NoClient THEN getClient.created + 1 ELSE @]
  /\ UNCHANGED toolRun
  /\ UNCHANGED agentVars

\* getGmailClient rejects with message m; the catch block of the tool gets it.
GetGmailClientRejects(m) ==
  /\ getClient' = [getClient EXCEPT !.phase = "rejected", !.rejected = TRUE]
  /\ OnOperationRejected(m)
  /\ UNCHANGED gmailClient
  /\ UNCHANGED agentVars

\* createOAuth2Client throws: a credential is missing from the environment.
CreateOAuth2ClientThrows ==
  /\ getClient.phase = "called"
  /\ CachedClient = NoClient
  /\ GetGmailClientRejects(
       "GOOGLE_CLIENT_ID and GOOGLE_CLIENT_SECRET must be set in .env")

\* createOAuth2Client returns and loadSavedTokens is awaited.
LoadSavedTokens ==
  /\ getClient.phase = "called"
  /\ CachedClient = NoClient
  /\ getClient' = [getClient EXCEPT !.phase = "loading"]
  /\ UNCHANGED <<toolRun, gmailClient>>
  /\ UNCHANGED agentVars

\* loadSavedTokens resolves with the tokens of the file.
TokensFound ==
  /\ getClient.phase = "loading"
  /\ ClientCreated

\* loadSavedTokens resolves with null: authorizeViaBrowser is awaited.
TokensMissing ==
  /\ getClient.phase = "loading"
  /\ getClient' = [getClient EXCEPT !.phase = "authorizing"]
  /\ UNCHANGED <<toolRun, gmailClient>>
  /\ UNCHANGED agentVars

\* authorizeViaBrowser resolves: the code was exchanged and the tokens saved.
AuthorizeResolves ==
  /\ getClient.phase = "authorizing"
  /\ ClientCreated

\* authorizeViaBrowser rejects: the callback carried an error, or the
\* exchange of the code failed.
AuthorizeRejects ==
  /\ getClient.phase = "authorizing"
  /\ \E m \in {"Google OAuth error: access_denied", "invalid_grant"} :
       GetGmailClientRejects(m)

\* What the tool awaits inside its try block rejects or throws.
OperationRejects ==
  /\ toolRun.phase = "pending"
  /\ ClientReady
  /\ toolRun.tool \in CatchingTools
  /\ \E m \in OpErrors : OnOperationRejected(m)
  /\ UNCHANGED gmailVars
  /\ UNCHANGED agentVars

\* linkedin_job_detail: fetch resolved with a response that is not ok.
JobPageNotOk ==
  /\ toolRun.phase = "pending"
  /\ toolRun.tool = "linkedin_job_detail"
  /\ \E status \in HttpStatuses :
       toolRun' = [toolRun EXCEPT !.phase = "resolved",
                                  !.settles = @ + 1,
                                  !.failed = TRUE,
                                  !.message = "HTTP " \o DecStr(status),
                                  !.text = "Error fetching job page: HTTP "
                                             \o DecStr(status)]
  /\ UNCHANGED gmailVars
  /\ UNCHANGED agentVars

\* error.code ?? 1 in a template literal.
CodeText(code) ==
  IF code.kind = "number" THEN DecStr(code.n)
  ELSE IF code.kind = "string" THEN code.s
  ELSE DecStr(1)

\* A variant of BashText with a defect: a missing code is printed as it is.
BashTextNoDefault(cb) ==
  IF cb.failed
  THEN Str(cb.stdout) \o Str(cb.stderr) \o "\n[exit code "
         \o (IF cb.code.kind = "number" THEN DecStr(cb.code.n)
             ELSE IF cb.code.kind = "string" THEN cb.code.s ELSE "null")
         \o "]"
  ELSE Str(TrimEnd(cb.stdout \o cb.stderr))

\* What the callback of execFile resolves the promise of bash with.
BashText(cb) ==
  IF cb.failed
  THEN Str(cb.stdout) \o Str(cb.stderr) \o "\n[exit code " \o CodeText(cb.code) \o "]"
  ELSE Str(TrimEnd(cb.stdout \o cb.stderr))

\* bash: execFile calls back, once: the child has exited, could not be
\* spawned, or was killed at the timeout.
ExecFileCallback ==
  /\ toolRun.phase = "pending"
  /\ toolRun.tool = "bash"
  /\ \E cb \in ExecFileCallbacks :
       toolRun' = [toolRun EXCEPT !.phase = "resolved",
                                  !.settles = @ + 1,
                                  !.failed = cb.failed,
                                  !.cb = cb,
                                  !.text = BashText(cb)]
  /\ UNCHANGED gmailVars
  /\ UNCHANGED agentVars

NextTools ==
  \/ ToolExecute
  \/ GetGmailClientCached
  \/ CreateOAuth2ClientThrows
  \/ LoadSavedTokens
  \/ TokensFound
  \/ TokensMissing
  \/ AuthorizeResolves
  \/ AuthorizeRejects
  \/ OperationResolves
  \/ GmailReadResolves
  \/ OperationRejects
  \/ JobPageNotOk
  \/ ExecFileCallback

SpecTools == Init /\ [][NextTools]_vars

\* The same system with the Agent compiled from one of the two texts only.
SpecPart006 == Init /\ agentSrc = Part006 /\ [][Next]_vars
SpecAgentTs == Init /\ agentSrc = AgentTs /\ [][Next]_vars

----------------------------------------------------------------------------
(* Vocabulary of the properties *)

Last(s) == s[Len(s)]
Range(s) == {s[i] : i \in DOMAIN s}
IsAssistant(turn) == turn.role = "assistant"
Uses(turn) == ToolUseBlocks(turn.blocks)
IsToolResultTurn(turn) == turn.role = "user" /\ turn.kind = "blocks"

\* turn answers the tool-call segments uses one for one, in order
AnswersInOrder(turn, uses) ==
  /\ IsToolResultTurn(turn)
  /\ Len(turn.blocks) = Len(uses)
  /\ \A k \in DOMAIN uses :
       /\ turn.blocks[k].type = "tool_result"
       /\ turn.blocks[k].tool_use_id = uses[k].id

\* the dispatch round of the latest assistant Turn is still under way
RoundOpen == pc \in {"DISPATCHING_TOOLS", "EXECUTING_TOOL"}

\* in msgs, every tool-call segment has exactly one tool-result entry, in the
\* Turn right after its own
AllAnswered(msgs) ==
  \A i \in DOMAIN msgs :
    IsAssistant(msgs[i]) =>
      \A k \in DOMAIN Uses(msgs[i]) :
        /\ i < Len(msgs)
        /\ IsToolResultTurn(msgs[i + 1])
        /\ Cardinality({j \in DOMAIN msgs[i + 1].blocks :
                          /\ msgs[i + 1].blocks[j].type = "tool_result"
                          /\ msgs[i + 1].blocks[j].tool_use_id = Uses(msgs[i])[k].id}) = 1

ProviderFailed == pc = "FAILED" /\ outcome.kind = "error" /\ outcome.value \in ProviderErrors

HasDuplicateNames(ts) ==
  \E i, j \in DOMAIN ts : i # j /\ ts[i].name = ts[j].name

----------------------------------------------------------------------------
(* Properties *)

\* C1: every assistant Turn holding tool-call segments, once its dispatch
\* round is over, is followed by a tool-result Turn with exactly one entry per
\* segment, in segment order and with the segment's call identifier - also
\* when tools are unknown or executors fail.
C1_ResultsMatchCalls ==
  \A i \in DOMAIN messages :
    (/\ IsAssistant(messages[i])
     /\ Uses(messages[i]) # <<>>
     /\ ~(i = Len(messages) /\ RoundOpen))
    => /\ i < Len(messages)
       /\ AnswersInOrder(messages[i + 1], Uses(messages[i]))

\* C2: the messages handed to any chat invocation have every tool-call segment
\* answered by exactly one tool-result entry in the Turn right after it,
\* whatever stop reasons the earlier responses carried.
C2_AnsweredBeforeCall == calls > 0 => AllAnswered(request)

\* C3: an executor that rejects yields the entry `Error executing tool
\* "<name>": <message>` with is_error, the tool-result Turn with that entry is
\* appended and handed to the next chat, and Agent.run does not fail with the
\* tool's error.
C3_ExecutorFailureContained ==
  /\ outcome.kind = "error" => outcome.value \in ProviderErrors
  /\ \A r \in Range(rejectLog) :
       LET entry == [type |-> "tool_result", tool_use_id |-> r.tool_use_id,
                     content |-> "Error executing tool \"" \o r.name \o "\": "
                                   \o r.message,
                     is_error |-> TRUE]
       IN \/ RoundOpen /\ entry \in Range(toolResults)
          \/ \E i \in DOMAIN messages :
               /\ IsToolResultTurn(messages[i])
               /\ entry \in Range(messages[i].blocks)
               /\ i <= Len(request)
               /\ request[i] = messages[i]

\* C4: a tool-call segment naming an unregistered tool never reaches an
\* executor, and once its round is over the Turn after it holds the entry
\* `Error: unknown tool "<name>"` with is_error for its call identifier, and
\* that Turn has been handed to the next chat.
C4_UnknownToolReported ==
  \A i \in DOMAIN messages :
    IsAssistant(messages[i]) =>
      \A k \in DOMAIN Uses(messages[i]) :
        LET use == Uses(messages[i])[k] IN
        use.name \notin {tools[t].name : t \in DOMAIN tools} =>
          /\ \A e \in Range(execLog) : e.tool_use_id # use.id
          /\ ~(i = Len(messages) /\ RoundOpen) =>
               /\ i < Len(messages)
               /\ IsToolResultTurn(messages[i + 1])
               /\ [type |-> "tool_result", tool_use_id |-> use.id,
                   content |-> "Error: unknown tool \"" \o use.name \o "\"",
                   is_error |-> TRUE] \in Range(messages[i + 1].blocks)
               /\ i + 1 <= Len(request)
               /\ request[i + 1] = messages[i + 1]

\* C5: while the latest response of the current run has no tool-call segment,
\* the run has ended with the response's texts joined by newline as its answer,
\* the assistant Turn is the last Turn and no chat was invoked after it,
\* whatever the stop reason.
C5_NoToolCallsEndsRun ==
  (/\ response.run = runs
   /\ response.run > 0
   /\ ToolUseBlocks(response.content) = <<>>)
  => /\ pc = "DONE"
     /\ outcome = Answer(JoinText(response.content))
     /\ Last(messages) = AssistantTurn(response.content)
     /\ calls = response.call

\* C6: an answer is returned only when the last Turn is an assistant Turn
\* without tool-call segments, and a response with a tool-call segment puts
\* the run into dispatch and then into another chat invocation.
C6_AnswerOnlyWithoutToolCalls ==
  /\ outcome.kind = "answer" =>
       /\ messages # <<>>
       /\ IsAssistant(Last(messages))
       /\ Uses(Last(messages)) = <<>>
  /\ (/\ response.run = runs
      /\ response.run > 0
      /\ ToolUseBlocks(response.content) # <<>>)
     => \/ RoundOpen /\ calls = response.call
        \/ calls > response.call

\* C7: after a failed provider call Conversation State is exactly the
\* messages that call was issued with: no Turn was appended for it.
C7_FailedCallAppendsNothing == ProviderFailed => messages = request

\* A provider call failed after a completed dispatch round.
C7_Witness ==
  /\ ProviderFailed
  /\ \E i \in DOMAIN messages : IsToolResultTurn(messages[i])
  /\ IsToolResultTurn(Last(messages))

\* C8: no two consecutive Turns of Conversation State have the same role.
C8_RolesAlternate ==
  \A i \in DOMAIN messages :
    i < Len(messages) => messages[i].role # messages[i + 1].role

\* C9: chat makes exactly one request per invocation, and a rejected chat
\* ends the run with that error at once: no other chat is invoked, no
\* executor is invoked, and only a new Agent.run invokes chat again.
C9_ProviderFailureNotRetried ==
  /\ [](creates = calls)
  /\ [][failures' = failures + 1 =>
          /\ pc' = "FAILED"
          /\ outcome'.kind = "error"
          /\ outcome'.value \in ProviderErrors
          /\ calls' = calls
          /\ creates' = creates
          /\ execLog' = execLog
          /\ executing' = <<>>]_vars
  /\ [][pc = "FAILED" /\ calls' # calls => runs' = runs + 1]_vars

\* The second chat of a run was rejected after an executor had run.
C9_Witness ==
  /\ ProviderFailed
  /\ failures = 1
  /\ calls = 2
  /\ runs = 1
  /\ execLog # <<>>

\* C10: an Agent built from a tool list with a repeated name never invokes
\* chat and never invokes an executor.
C10_DuplicateNamesNeverRun ==
  HasDuplicateNames(tools) => calls = 0 /\ execLog = <<>>

\* C11: at most one executor is in flight; while a round is under way the
\* entries produced so far answer the first segments of the assistant Turn in
\* segment order, and the executor in flight is the one of the first segment
\* not yet answered: no executor starts before the earlier ones have ended.
C11_ExecutorsOneAtATime ==
  /\ Len(executing) <= 1
  /\ RoundOpen =>
       LET uses == Uses(Last(messages)) IN
       /\ Len(toolResults) <= Len(uses)
       /\ \A k \in DOMAIN toolResults : toolResults[k].tool_use_id = uses[k].id
       /\ executing # <<>> =>
            /\ Len(toolResults) < Len(uses)
            /\ executing[1].block = uses[Len(toolResults) + 1]
  /\ \A i, j \in DOMAIN execLog :
       i < j => execLog[i].tool_use_id < execLog[j].tool_use_id

\* The executor of the second segment is in flight after the first resolved.
C11_Witness ==
  /\ pc = "EXECUTING_TOOL"
  /\ Len(toolResults) = 1
  /\ ~IsError(toolResults[1])
  /\ toolResults[1].content \in ExecTexts
  /\ Len(execLog) = 2

\* C12: at most one chat invocation is in flight, none while an executor is
\* running, and at most one Agent.run is under way: the prompt loop starts a
\* run only when the one before has returned or failed.
C12_OneCallOneRun ==
  /\ calls - settled \in {0, 1}
  /\ executing # <<>> => calls = settled
  /\ runs - ended \in {0, 1}
  /\ shell # "running" => runs = ended /\ calls = settled /\ executing = <<>>

\* The run of a second input is executing a tool.
C12_Witness ==
  /\ runs = 2
  /\ ended = 1
  /\ executing # <<>>
  /\ shell = "running"

\* The tool-result entries of the transcript, each with its place.
EntryPlaces ==
  {<<i, j>> \in (DOMAIN messages) \X (1..3) :
     /\ j \in DOMAIN messages[i].blocks
     /\ messages[i].blocks[j].type = "tool_result"}

\* C13: every tool-result entry of Conversation State sits in the Turn right
\* after an assistant Turn that holds a tool-call segment with the entry's
\* call identifier, and no call identifier has two entries in the transcript.
C13_EntriesAnswerCalls ==
  /\ \A i \in DOMAIN messages : Len(messages[i].blocks) <= 3
  /\ \A p \in EntryPlaces :
       /\ p[1] > 1
       /\ IsAssistant(messages[p[1] - 1])
       /\ \E k \in DOMAIN Uses(messages[p[1] - 1]) :
            Uses(messages[p[1] - 1])[k].id = messages[p[1]].blocks[p[2]].tool_use_id
  /\ \A p, q \in EntryPlaces :
       messages[p[1]].blocks[p[2]].tool_use_id = messages[q[1]].blocks[q[2]].tool_use_id
         => p = q

\* A tool-result Turn with two entries is in the transcript.
C13_Witness ==
  \E i \in DOMAIN messages :
    /\ IsToolResultTurn(messages[i])
    /\ Len(messages[i].blocks) = 2
    /\ messages[i].blocks[1].tool_use_id # messages[i].blocks[2].tool_use_id

\* The assistant Turns of the transcript.
AssistantPlaces == {i \in DOMAIN messages : IsAssistant(messages[i])}

\* The call identifiers some assistant Turn of the transcript holds.
AppendedIds ==
  UNION {{u.id : u \in Range(Uses(messages[i]))} : i \in AssistantPlaces}

\* C14: every successful provider call appends exactly one assistant Turn
\* whose blocks are the response's content, unchanged and in order, whether
\* the response is final, empty or asks for tools; the Turn is in place
\* before any executor of that response is invoked and before the answer is
\* returned.
C14_AssistantTurnAppended ==
  /\ [][response' # response =>
          /\ messages' = Append(messages, [role |-> "assistant", kind |-> "blocks",
                                           text |-> "", blocks |-> response'.content])
          /\ execLog' = execLog
          /\ toolResults' = <<>>]_vars
  /\ [][response' = response => AssistantPlaces' = AssistantPlaces]_vars
  /\ [](Cardinality(AssistantPlaces) = settled - failures)
  /\ []((RoundOpen \/ pc = "DONE") =>
          /\ IsAssistant(Last(messages))
          /\ Last(messages).blocks = response.content)
  /\ [](\A k \in DOMAIN execLog : execLog[k].tool_use_id \in AppendedIds)

\* A response of three segments, text between two tool calls, is the last
\* Turn while the executor of its third segment runs.
C14_Witness ==
  /\ pc = "EXECUTING_TOOL"
  /\ Len(response.content) = 3
  /\ response.content[2].type = "text"
  /\ Last(messages).blocks = response.content
  /\ Cardinality(AssistantPlaces) = 1

\* C15: every provider call is made with the whole of this.messages as it is
\* at the call, every Turn in order and the just-appended user or tool-result
\* Turn last, with the configured system prompt and with one descriptor for
\* every tool of the configuration, in order.
C15_FullStateSent ==
  /\ [][calls' # calls =>
          /\ request' = messages'
          /\ Len(messages') = Len(messages) + 1
          /\ Last(request').role = "user"
          /\ createParams'.system = SystemPrompt
          /\ Len(createParams'.tools) = Len(tools)
          /\ \A i \in DOMAIN tools :
               /\ createParams'.tools[i].name = tools[i].name
               /\ createParams'.tools[i].description = tools[i].description
               /\ \A k \in DOMAIN tools[i].inputSchema :
                    createParams'.tools[i].input_schema[k] = tools[i].inputSchema[k]]_vars
  /\ [](pc = "CALLING_PROVIDER" => request = messages)

\* The second call of a run is in flight with three Turns, the tool-result
\* Turn last, and two tool descriptors.
C15_Witness ==
  /\ pc = "CALLING_PROVIDER"
  /\ calls = 2
  /\ Len(request) = 3
  /\ IsToolResultTurn(Last(request))
  /\ Len(createParams.tools) = 2

\* C16: this.messages only grows: every step leaves the Turns it found in
\* place and unchanged, so the Turns of one run are a prefix of what every
\* later run of the same Agent sees, also after a run has ended.
C16_AppendOnly ==
  [][/\ Len(messages') >= Len(messages)
     /\ SubSeq(messages', 1, Len(messages)) = messages]_vars

\* A second run has ended on top of the two Turns of the first.
C16_Witness ==
  /\ runs = 2
  /\ pc = "DONE"
  /\ Len(messages) = 4
  /\ messages[3] = UserTurn("hi")
  /\ IsAssistant(messages[2])

\* C17: whatever text Agent.run returns is the joined text of the last
\* assistant Turn, and that Turn holds no tool-call segment: text that shares
\* a Turn with a tool call is never returned.
C17_AnswerTextFromFinalTurn ==
  (outcome.kind = "answer" /\ outcome.value # "") =>
    /\ IsAssistant(Last(messages))
    /\ Uses(Last(messages)) = <<>>
    /\ outcome.value = JoinText(Last(messages).blocks)

\* C18: a response without any segment ends the run with the empty string
\* as the answer, the empty assistant Turn appended last and no provider
\* call after the one that returned it.
C18_EmptyResponseEndsRun ==
  (/\ response.run = runs
   /\ response.run > 0
   /\ response.content = <<>>)
  => /\ pc = "DONE"
     /\ outcome = Answer("")
     /\ IsAssistant(Last(messages))
     /\ Last(messages).blocks = <<>>
     /\ calls = response.call

\* The tool-result entries there are: those of the transcript and those of
\* the local toolResults.
AllEntries ==
  {messages[p[1]].blocks[p[2]] : p \in EntryPlaces} \cup Range(toolResults)

\* The tool-call segments of the transcript.
AllUses == UNION {Range(Uses(messages[i])) : i \in AssistantPlaces}

\* C19: for every text an executor of a registered tool resolved with, the
\* entry of that call carries the text unchanged and is not error-tagged,
\* also when the text reports a failure of the tool; an error-tagged entry
\* answers a call of an unknown tool or a call whose executor threw.
C19_ReturnedTextNotEscalated ==
  /\ [][resolveLog' # resolveLog =>
          toolResults' =
            Append(toolResults, [type |-> "tool_result",
                                 tool_use_id |-> Last(resolveLog').tool_use_id,
                                 content |-> Last(resolveLog').text])]_vars
  /\ [](\A e \in AllEntries :
         /\ \A k \in DOMAIN resolveLog :
              e.tool_use_id = resolveLog[k].tool_use_id
                => e.content = resolveLog[k].text /\ ~IsError(e)
         /\ IsError(e) =>
              \/ \E u \in AllUses :
                   u.id = e.tool_use_id /\ ~HasTool(toolMap, u.name)
              \/ \E k \in DOMAIN rejectLog :
                   rejectLog[k].tool_use_id = e.tool_use_id)

\* An executor resolved with a text that reports its own failure, and the
\* entry sent to the provider carries it without the error tag.
C19_Witness ==
  /\ pc = "CALLING_PROVIDER"
  /\ \E e \in Range(Last(request).blocks) :
       /\ e.type = "tool_result"
       /\ e.content = "Error reading file: ENOENT"
       /\ ~IsError(e)
  /\ resolveLog # <<>>

\* s is an initial part of t.
IsPrefix(s, t) == Len(s) <= Len(t) /\ SubSeq(t, 1, Len(s)) = s

\* The second evaluation has taken every entry of script and has ended.
ReplayEnded == session = 2 /\ pos > Len(script) /\ pc \in {"DONE", "FAILED"}

\* C20: a run evaluated a second time from the same Conversation State, with
\* the same line and with a provider and executors that give what they gave
\* the first time, builds the same Turns one by one and ends with the same
\* answer (or the same error) and the same Conversation State.
C20_ReplayAgrees ==
  /\ (session = 2 /\ pos > 1) => IsPrefix(messages, recorded.messages)
  /\ ReplayEnded =>
       /\ outcome = recorded.outcome
       /\ messages = recorded.messages

\* The second evaluation of a run with a round of two tool calls has ended
\* with an answer.
C20_Witness ==
  /\ ReplayEnded
  /\ outcome.kind = "answer"
  /\ Len(messages) = 4
  /\ Len(messages[3].blocks) = 2
  /\ Len(script) >= 4

\* C21: this.anthropicTools holds one schema per tool of config.tools, in
\* list order, with the tool's name, its description and every key of its
\* inputSchema with the value it has there; it is computed at construction,
\* never changes, and is the tools parameter of every provider call.
C21_SchemasLossless ==
  /\ [](/\ Len(anthropicTools) = Len(tools)
        /\ \A i \in DOMAIN tools :
             /\ anthropicTools[i].name = tools[i].name
             /\ anthropicTools[i].description = tools[i].description
             /\ DOMAIN tools[i].inputSchema \subseteq DOMAIN anthropicTools[i].input_schema
             /\ \A k \in DOMAIN tools[i].inputSchema :
                  anthropicTools[i].input_schema[k] = tools[i].inputSchema[k])
  /\ [][anthropicTools' = anthropicTools]_vars
  /\ [](calls > 0 => createParams.tools = anthropicTools)

\* The second provider call advertises two schemas, the second with the
\* `type` its own inputSchema gives.
C21_Witness ==
  /\ calls = 2
  /\ Len(createParams.tools) = 2
  /\ "type" \in DOMAIN tools[2].inputSchema
  /\ createParams.tools[2].input_schema.type = "string"
  /\ createParams.tools[1].input_schema.required = "command"

\* The names config.tools registers.
RegisteredNames == {tools[i].name : i \in DOMAIN tools}

\* The dispatch loop stands at a tool-call segment whose name is, letter for
\* letter, none of the registered names.
AtUnknownName ==
  /\ pc = "DISPATCHING_TOOLS"
  /\ idx <= Len(blocks)
  /\ blocks[idx].type = "tool_use"
  /\ blocks[idx].name \notin RegisteredNames

\* C22: the lookup matches names exactly: a requested name that is none of
\* the registered names, also one that differs in letter case only, gets an
\* error entry and the run goes on, no executor is invoked for it and the
\* run does not fail on it; an executor is invoked only under the very name
\* requested; this.toolMap is what the constructor built and never changes.
C22_LookupExactNeverThrows ==
  /\ [][AtUnknownName =>
          /\ toolResults' =
               Append(toolResults,
                      [type |-> "tool_result", tool_use_id |-> blocks[idx].id,
                       content |-> "Error: unknown tool \"" \o blocks[idx].name \o "\"",
                       is_error |-> TRUE])
          /\ pc' = "DISPATCHING_TOOLS"
          /\ idx' = idx + 1
          /\ execLog' = execLog
          /\ outcome' = outcome]_vars
  /\ [](\A k \in DOMAIN execLog :
          \E u \in AllUses : u.id = execLog[k].tool_use_id /\ u.name = execLog[k].name)
  /\ [][toolMap' = toolMap]_vars
  /\ [](DOMAIN toolMap = RegisteredNames)

\* "Bash" was requested while "bash" is registered: the entry reports it as
\* unknown and the loop has moved on.
C22_Witness ==
  /\ "bash" \in RegisteredNames
  /\ pc = "DISPATCHING_TOOLS"
  /\ toolResults # <<>>
  /\ toolResults[1].content = "Error: unknown tool \"Bash\""
  /\ IsError(toolResults[1])
  /\ idx > 1

\* What the callback prints for an outcome of Agent.run.
PrintedFor(o) ==
  IF o.kind = "answer"
  THEN [stream |-> "stdout", text |-> "\nassistant> " \o o.value \o "\n"]
  ELSE [stream |-> "stderr", text |-> "\nError: " \o o.value \o "\n"]

\* C23: a line read at the prompt that trims to `exit` or `quit` closes the
\* prompt: Agent.run is not called and no step follows.  A line that trims to
\* anything else but the empty string starts exactly one Agent.run, with the
\* trimmed line as the user Turn, and no line is read while it runs; when
\* the run returns its answer is printed, and only then the prompt is back.
C23_ShellLines ==
  /\ [][shell # "closed"]_vars
  /\ [][shell = "question" =>
          \/ /\ trimmed' \in {"exit", "quit"}
             /\ shell' = "closed"
             /\ runs' = runs /\ calls' = calls /\ messages' = messages
             /\ output' = output
          \/ /\ trimmed' = ""
             /\ shell' = "question"
             /\ runs' = runs
          \/ /\ trimmed' \in UserMessages
             /\ shell' = "running"
             /\ runs' = runs + 1
             /\ messages' = Append(messages, [role |-> "user", kind |-> "text",
                                              text |-> trimmed', blocks |-> <<>>])]_vars
  /\ [][shell = "running" => runs' = runs /\ trimmed' = trimmed]_vars
  /\ [][(shell = "running" /\ shell' = "question") =>
          /\ outcome'.kind \in {"answer", "error"}
          /\ output' = Append(output, PrintedFor(outcome'))]_vars
  /\ [][output' # output => shell = "running" /\ shell' = "question"]_vars

\* `exit` was typed after a run whose answer is on stdout: the prompt is
\* closed and there was one run.
C23_Witness ==
  /\ shell = "closed"
  /\ trimmed = "quit"
  /\ runs = 1
  /\ Len(output) = 1
  /\ output[1] = [stream |-> "stdout", text |-> "\nassistant> a\n"]

C27_RunEndsOnFinalResponse ==
  /\ RoundOpen ~> (pc = "CALLING_PROVIDER")
  /\ []((/\ response.run = runs
         /\ response.run > 0
         /\ response.call = settled
         /\ ToolUseBlocks(response.content) = <<>>)
        => (pc = "DONE" /\ outcome.kind = "answer"))
  /\ [][ended' # ended =>
          \/ /\ pc' = "DONE"
             /\ outcome'.kind = "answer"
             /\ ToolUseBlocks(response'.content) = <<>>
          \/ /\ pc' = "FAILED"
             /\ failures' = failures + 1
             /\ pc = "CALLING_PROVIDER"]_vars

\* The moves of the control state: the chain of the loop, the abort of a run
\* by a failed provider call, and the start of the next run.
ChainMoves ==
  {<<"AWAITING_USER_INPUT", "CALLING_PROVIDER">>,
   <<"CALLING_PROVIDER", "DISPATCHING_TOOLS">>,
   <<"CALLING_PROVIDER", "DONE">>,
   <<"CALLING_PROVIDER", "FAILED">>,
   <<"DISPATCHING_TOOLS", "EXECUTING_TOOL">>,
   <<"EXECUTING_TOOL", "DISPATCHING_TOOLS">>,
   <<"DISPATCHING_TOOLS", "CALLING_PROVIDER">>,
   <<"DONE", "CALLING_PROVIDER">>,
   <<"FAILED", "CALLING_PROVIDER">>}

\* The user Turns that hold a typed message.
UserTextPlaces ==
  {i \in DOMAIN messages : messages[i].role = "user" /\ messages[i].kind = "text"}

\* C28: the control state moves along AWAITING_USER_INPUT, CALLING_PROVIDER,
\* any number of DISPATCHING_TOOLS and CALLING_PROVIDER, DONE, and leaves that
\* chain only from CALLING_PROVIDER; a run appends its user Turn once, in the
\* step that issues its first provider call; an executor is invoked only for
\* the response of the latest provider call; a dispatch round that is over
\* goes to a provider call.
C28_ControlChain ==
  /\ [][pc' # pc => <<pc, pc'>> \in ChainMoves]_vars
  /\ [][runs' # runs =>
          /\ pc \in {"AWAITING_USER_INPUT", "DONE", "FAILED"}
          /\ pc' = "CALLING_PROVIDER"
          /\ Len(messages') = Len(messages) + 1
          /\ UserTextPlaces' = UserTextPlaces \cup {Len(messages')}
          /\ calls' = calls + 1]_vars
  /\ [](Cardinality(UserTextPlaces) = runs)
  /\ [][execLog' # execLog =>
          /\ pc = "DISPATCHING_TOOLS"
          /\ response.call = calls
          /\ settled = calls]_vars
  /\ [][(pc = "DISPATCHING_TOOLS" /\ pc' \notin {"DISPATCHING_TOOLS", "EXECUTING_TOOL"}) =>
          /\ pc' = "CALLING_PROVIDER"
          /\ calls' = calls + 1
          /\ IsToolResultTurn(Last(messages'))]_vars

\* C29: when Agent.run fails, the prompt callback prints `Error: <message>`
\* on stderr and the prompt is back; the next line goes to the same Agent,
\* whose messages are those it had at the failure; a line that is empty
\* after trimming changes nothing and starts no run.
C29_ShellSurvivesFailure ==
  /\ [][(pc # "FAILED" /\ pc' = "FAILED") =>
          /\ shell = "running"
          /\ shell' = "question"
          /\ output' = Append(output, [stream |-> "stderr",
                                       text |-> "\nError: " \o outcome'.value \o "\n"])
          /\ messages' = messages]_vars
  /\ [][(pc = "FAILED" /\ runs' # runs) =>
          /\ Len(messages') = Len(messages) + 1
          /\ SubSeq(messages', 1, Len(messages)) = messages
          /\ toolMap' = toolMap
          /\ anthropicTools' = anthropicTools]_vars
  /\ [][(pc = "FAILED" /\ pc' = "FAILED") => messages' = messages]_vars
  /\ [][(shell = "question" /\ trimmed' = "") =>
          /\ shell' = "question"
          /\ runs' = runs /\ calls' = calls
          /\ messages' = messages /\ output' = output]_vars

\* A second run is under way after the first one failed on its provider
\* call: the error is on stderr and the first user Turn is still there.
C29_Witness ==
  /\ runs = 2
  /\ failures = 1
  /\ pc = "CALLING_PROVIDER"
  /\ output = <<[stream |-> "stderr", text |-> "\nError: overloaded\n"]>>
  /\ Len(messages) = 2
  /\ request = messages

\* C30: a call of getGmailClient that completes gives the client that is
\* cached, the same one as the first call that completed; once a client is
\* cached it is never replaced, no other is made, and no call loads tokens,
\* runs the browser authorization or fails; a call that fails caches
\* nothing, and a call that finds nothing cached goes through creation.
C30_GmailClientCached ==
  /\ [](getClient.phase = "returned" =>
          /\ getClient.returned # NoClient
          /\ getClient.returned = gmailClient
          /\ getClient.returned = getClient.first)
  /\ [](gmailClient # NoClient =>
          getClient.phase \notin {"loading", "authorizing", "rejected"})
  /\ [][gmailClient # NoClient =>
          /\ gmailClient' = gmailClient
          /\ getClient'.created = getClient.created]_vars
  /\ [][(getClient.phase # "rejected" /\ getClient'.phase = "rejected") =>
          /\ gmailClient = NoClient
          /\ gmailClient' = NoClient]_vars
  /\ [][(getClient.phase = "called" /\ gmailClient = NoClient
           /\ getClient' # getClient) =>
          getClient'.phase \in {"loading", "rejected"}]_vars

\* A call failed, a later one made the client, and a call after that got
\* the same client from the cache.
C30_Witness ==
  /\ getClient.rejected
  /\ getClient.phase = "returned"
  /\ getClient.via = "cache"
  /\ getClient.returned = 1
  /\ getClient.created = 1
  /\ gmailClient = 1

====
